---- MODULE Spec2Model ----
(***************************************************************************)
(* Model of the fuzzy fund-name matcher: FuzzyScorer (c2_fuzz_scorer.py),  *)
(* FuzzyFundMatcher (c1_fuzz_matcher.py) and the tail of preproc_string    *)
(* (f1_preproc_strings.py).                                                *)
(*                                                                         *)
(* A Python string is a sequence of one-character strings.  A number that  *)
(* may be fractional (digit_multiplier) is a pair <<num, den>>, den > 0.   *)
(* All scores of the bounded inputs are small rationals, on which Python's *)
(* double arithmetic in int(100*(m/(m+p))) and the exact quotient agree.   *)
(***************************************************************************)
EXTENDS Integers, Sequences, FiniteSets, TLC

VARIABLES
    \* one FuzzyScorer object
    seq1, seq2, seqmat, digit_multiplier, sorted_token,
    \* the last call on the scorer and its outcome
    ret

VARIABLES
    \* one FuzzyFundMatcher object
    to_matches, choices, to_matches_r, to_matches_f, choices_r, choices_f,
    match_pos,
    \* how this build's numpy sort orders equal values
    sort_ties,
    \* one call of find_cur_best: its query, its arguments and its outcome
    arg_registrant, arg_fund, call, result,
    \* one call of find_best: where it is, its arguments, the queries it
    \* zipped, the outcome of each task, the first failure a pool worker
    \* reported, the tasks in the order they finished, and what it returned
    \* or raised
    pc, args, reg_funds, mats, first_fault, done_order, output, exc

VARIABLES
    \* the script: the filings (nd) and the fund rows (crsp) it loaded, where
    \* its quarter loop is, and the quarters it appended to the output file
    nd, crsp, year, month, written, loop_pc

scorer_vars == <<seq1, seq2, seqmat, digit_multiplier, sorted_token, ret>>
matcher_vars == <<to_matches, choices, to_matches_r, to_matches_f, choices_r,
                  choices_f, match_pos, sort_ties>>
funnel_vars == <<arg_registrant, arg_fund, call, result>>
batch_vars == <<pc, args, reg_funds, mats, first_fault, done_order, output,
                exc>>
loop_vars == <<nd, crsp, year, month, written, loop_pc>>
vars == <<scorer_vars, matcher_vars, funnel_vars, batch_vars, loop_vars>>

\* ------------------------------------------------------------------------
\* Bounds and input alphabets
\* ------------------------------------------------------------------------
MaxLen == 3

Letters == {"a"}
Digits == {"1"}
Space == " "
Alphabet == Letters \cup Digits \cup {Space}

\* the lower-case letters in code point order
Lower == <<"a", "b", "c", "d", "e", "f", "g", "h", "i", "j", "k", "l", "m",
           "n", "o", "p", "q", "r", "s", "t", "u", "v", "w", "x", "y", "z">>

\* the decimal digits in code point order
Decimal == <<"0", "1", "2", "3", "4", "5", "6", "7", "8", "9">>

\* code point order of the characters, as Python's sorted() compares them
Ord(c) == CASE c = " " -> 32
            [] \E k \in 1..10 : Decimal[k] = c ->
                   47 + (CHOOSE k \in 1..10 : Decimal[k] = c)
            [] OTHER -> 96 + (CHOOSE k \in 1..26 : Lower[k] = c)

RECURSIVE StringsOfLen(_)
StringsOfLen(n) ==
    IF n = 0 THEN {<<>>}
    ELSE {Append(s, c) : s \in StringsOfLen(n - 1), c \in Alphabet}

Strings == UNION {StringsOfLen(n) : n \in 0..MaxLen}

\* the digit multipliers a caller can pass: 1/4, 1, 3 (documented range,
\* > 0) and -1 (outside it)
DigitMultipliers == {<<1, 4>>, <<1, 1>>, <<3, 1>>, <<-1, 1>>}

\* ------------------------------------------------------------------------
\* Arithmetic helpers
\* ------------------------------------------------------------------------
Min(x, y) == IF x <= y THEN x ELSE y
Max(x, y) == IF x >= y THEN x ELSE y
Abs(x) == IF x < 0 THEN -x ELSE x

\* Python int(n/d): truncation toward zero, d # 0
TruncDiv(n, d) ==
    IF (n >= 0) = (d > 0) THEN Abs(n) \div Abs(d) ELSE -(Abs(n) \div Abs(d))

RECURSIVE SumSeq(_)
SumSeq(s) == IF s = <<>> THEN 0 ELSE Head(s) + SumSeq(Tail(s))

\* arr[::-1]
Reverse(arr) == [k \in 1..Len(arr) |-> arr[Len(arr) + 1 - k]]

\* ------------------------------------------------------------------------
\* Python float arithmetic (IEEE 754 binary64, round to nearest, ties to
\* even).  A positive float is [m |-> its 53 mantissa bits, most significant
\* first, e |-> exponent]: the value is (m read as an integer) * 2^e.
\* ------------------------------------------------------------------------
MantissaBits == 53

\* binary digits of n > 0, most significant first; <<>> for 0
RECURSIVE IntBits(_)
IntBits(n) == IF n = 0 THEN <<>> ELSE Append(IntBits(n \div 2), n % 2)

\* the integer a bit sequence stands for
RECURSIVE BitsToInt(_)
BitsToInt(bits) ==
    IF bits = <<>> THEN 0
    ELSE 2 * BitsToInt(SubSeq(bits, 1, Len(bits) - 1)) + bits[Len(bits)]

\* 2^k modulo d, by repeated squaring
RECURSIVE Pow2Mod(_, _)
Pow2Mod(k, d) ==
    IF k = 0 THEN 1 % d
    ELSE IF k % 2 = 0 THEN LET h == Pow2Mod(k \div 2, d) IN (h * h) % d
    ELSE (2 * Pow2Mod(k - 1, d)) % d

\* the float nearest to bits * 2^e, where bits starts with a 1 and has more
\* than MantissaBits entries; a tie goes to the even mantissa
RoundToFloat(bits, e) ==
    LET guard == bits[MantissaBits + 1]
        sticky == \E k \in (MantissaBits + 2)..Len(bits) : bits[k] = 1
        up == guard = 1 /\ (sticky \/ bits[MantissaBits] = 1)
        dropped == Len(bits) - MantissaBits
        \* the kept bits + 1, the last zero bit being at `last` (0 if there
        \* is none: all ones wrap to all zeros)
        inc(last) ==
            IF last = 0
            THEN [m |-> [k \in 1..MantissaBits |-> IF k = 1 THEN 1 ELSE 0],
                  e |-> e + dropped + 1]
            ELSE [m |-> [k \in 1..MantissaBits |->
                            IF k < last THEN bits[k]
                            ELSE IF k = last THEN 1 ELSE 0],
                  e |-> e + dropped]
        last_of(zeros) ==
            IF zeros = {} THEN 0
            ELSE CHOOSE k \in zeros : \A z \in zeros : z <= k
    IN  IF ~up THEN [m |-> SubSeq(bits, 1, MantissaBits), e |-> e + dropped]
        ELSE inc(last_of({k \in 1..MantissaBits : bits[k] = 0}))

\* bits * c for a small integer c > 0, least significant bit first
RECURSIVE TimesLsb(_, _, _)
TimesLsb(lsb, c, carry) ==
    IF lsb = <<>> THEN IF carry = 0 THEN <<>>
                       ELSE <<carry % 2>> \o TimesLsb(<<>>, c, carry \div 2)
    ELSE LET t == Head(lsb) * c + carry
         IN  <<t % 2>> \o TimesLsb(Tail(lsb), c, t \div 2)

\* int(100*(n/d)) for integers n > 0 and 0 < d < 2^13
float_percent(n, d) ==
    LET places == MantissaBits + 1 + 13
        r == n % d
        \* the first `places` binary digits of r/d after the point, then one
        \* more entry: 1 if a remainder is left, 0 if not
        frac == [j \in 1..(places + 1) |->
                    IF j <= places
                    THEN (2 * ((r * Pow2Mod(j - 1, d)) % d)) \div d
                    ELSE IF (r * Pow2Mod(places, d)) % d = 0 THEN 0 ELSE 1]
        \* int(x)
        int(x) ==
            IF x.e >= 0 THEN BitsToInt(x.m \o [k \in 1..x.e |-> 0])
            ELSE IF -x.e >= MantissaBits THEN 0
            ELSE BitsToInt(SubSeq(x.m, 1, MantissaBits + x.e))
        \* 100 * quotient
        times100(quotient) ==
            RoundToFloat(Reverse(TimesLsb(Reverse(quotient.m), 100, 0)),
                         quotient.e)
        \* n / d (true division), from the binary digits of the exact ratio
        divide(digits) ==
            LET first == CHOOSE k \in 1..Len(digits) :
                             digits[k] = 1 /\ \A j \in 1..(k - 1) : digits[j] = 0
            IN  RoundToFloat(SubSeq(digits, first, Len(digits)), -(places + 1))
    IN  int(times100(divide(IntBits(n \div d) \o frac)))

\* float_percent on the operands the short strings produce, evaluated once
percent_memo == [n \in 1..48, d \in 1..96 |-> float_percent(n, d)]

\* int(100*(n/d)) for integers n >= 0 and d # 0
percent(n, d) ==
    IF n = 0 THEN 0
    ELSE LET v == IF <<n, Abs(d)>> \in DOMAIN percent_memo
                  THEN percent_memo[n, Abs(d)]
                  ELSE float_percent(n, Abs(d))
         IN  IF d > 0 THEN v ELSE -v

\* ------------------------------------------------------------------------
\* SequenceMatcher.get_matching_blocks: greedy longest-common-substring
\* partition (indices are 1-based here, 0-based in Python)
\* ------------------------------------------------------------------------
\* length of the common run of a[i..ahi] and b[j..bhi]
RunLen(a, i, ahi, b, j, bhi) ==
    LET room == Min(ahi - i, bhi - j) + 1
    IN  CHOOSE n \in 0..room :
            /\ \A k \in 0..(n - 1) : a[i + k] = b[j + k]
            /\ n = room \/ a[i + n] # b[j + n]

\* longest block in a[alo..ahi], b[blo..bhi]; among the longest the one
\* starting earliest in a, and of those the one starting earliest in b
find_longest_match(a, alo, ahi, b, blo, bhi) ==
    LET pairs == (alo..ahi) \X (blo..bhi)
        \* the earliest start in b among the longest blocks starting at i
        at_i(row, i, best) ==
            <<i, CHOOSE y \in {p[2] : p \in row} : \A p \in row : y <= p[2], best>>
        \* the earliest start in a among the longest blocks
        earliest(longest, i, best) ==
            at_i({q \in longest : q[1] = i}, i, best)
        of_length(longest, best) ==
            earliest(longest,
                     CHOOSE x \in {p[1] : p \in longest} :
                         \A p \in longest : x <= p[1],
                     best)
        longest_of(k, best) ==
            IF best = 0 THEN <<alo, blo, 0>>
            ELSE of_length({p \in pairs : k[p] = best}, best)
        best_of(k) ==
            longest_of(k, IF pairs = {} THEN 0
                          ELSE CHOOSE n \in {k[p] : p \in pairs} :
                                   \A p \in pairs : k[p] <= n)
    IN  best_of([p \in pairs |-> RunLen(a, p[1], ahi, b, p[2], bhi)])

RECURSIVE BlocksIn(_, _, _, _, _, _)
BlocksIn(a, alo, ahi, b, blo, bhi) ==
    LET around(m) ==
            IF m[3] = 0 THEN <<>>
            ELSE BlocksIn(a, alo, m[1] - 1, b, blo, m[2] - 1)
                 \o <<m>>
                 \o BlocksIn(a, m[1] + m[3], ahi, b, m[2] + m[3], bhi)
    IN  around(find_longest_match(a, alo, ahi, b, blo, bhi))

\* the blocks in ascending order, closed by the zero-length block at the
\* end of both strings
get_matching_blocks(a, b) ==
    BlocksIn(a, 1, Len(a), b, 1, Len(b)) \o <<<<Len(a) + 1, Len(b) + 1, 0>>>>

\* ------------------------------------------------------------------------
\* Python values
\* ------------------------------------------------------------------------
\* None where a string is expected; never equal to a string over Alphabet
NoneStr == <<"None">>

\* outcome of a call: a returned value, or the exception it raised
Return(v) == [exc |-> "", val |-> v]
Raise(e) == [exc |-> e, val |-> 0]

Range(lo, hi) == [k \in 1..(hi - lo + 1) |-> lo + k - 1]

isdigit(c) == \E k \in 1..10 : Decimal[k] = c

\* ------------------------------------------------------------------------
\* FuzzyScorer: the scoring functions on two given strings
\* ------------------------------------------------------------------------
\* positions of string `which` (1: seq1, 2: seq2) lying before each block
RECURSIVE diff(_, _, _)
diff(matching_blocks, which, cur_pos) ==
    IF matching_blocks = <<>> THEN <<>>
    ELSE LET blk == Head(matching_blocks)
         IN  Range(cur_pos, blk[which] - 1)
             \o diff(Tail(matching_blocks), which, blk[which] + blk[3])

\* penalty that charges the multiplier for the characters that are no digits
penalty_on_letters(s, positions, dm) ==
    SumSeq([k \in 1..Len(positions) |->
               IF isdigit(s[positions[k]]) THEN dm[2] ELSE dm[1]])

\* penalty of the listed positions of s, in units of 1/dm[2]
penalty(s, positions, dm) ==
    SumSeq([k \in 1..Len(positions) |->
               IF isdigit(s[positions[k]]) THEN dm[1] ELSE dm[2]])

matches(matching_blocks) ==
    SumSeq([k \in 1..Len(matching_blocks) |-> matching_blocks[k][3]])

\* compute_score that forgets the unmatched characters of the second string
compute_score_first_only(s1, s2, mat, dm) ==
    IF s1 = NoneStr \/ s2 = NoneStr THEN Raise("TypeError")
    ELSE IF Len(s1) = 0 /\ Len(s2) = 0 THEN Return(100)
    ELSE IF Len(s1) = 0 \/ Len(s2) = 0 THEN Return(0)
    ELSE LET ratio(m, pen) ==
                 IF m + pen = 0 THEN Raise("ZeroDivisionError")
                 ELSE Return(percent(m, m + pen))
             score(matching_blocks) ==
                 ratio(matches(matching_blocks) * dm[2],
                       penalty(s1, diff(matching_blocks, 1, 1), dm))
         IN  score(get_matching_blocks(mat[1], mat[2]))

\* compute_score on the strings s1, s2 of a scorer whose matcher holds the
\* strings mat[1], mat[2]
compute_score_with(s1, s2, mat, dm) ==
    IF s1 = NoneStr \/ s2 = NoneStr THEN Raise("TypeError")
    ELSE IF Len(s1) = 0 /\ Len(s2) = 0 THEN Return(100)
    ELSE IF Len(s1) = 0 \/ Len(s2) = 0 THEN Return(0)
    ELSE LET ratio(m, pen) ==
                 IF m + pen = 0 THEN Raise("ZeroDivisionError")
                 ELSE Return(percent(m, m + pen))
             score(matching_blocks) ==
                 ratio(matches(matching_blocks) * dm[2],
                       penalty(s1, diff(matching_blocks, 1, 1), dm)
                           + penalty(s2, diff(matching_blocks, 2, 1), dm))
         IN  score(get_matching_blocks(mat[1], mat[2]))

\* set_choice(s1) followed by compute_score() on a scorer built for s2
compute_score(s1, s2, dm) == compute_score_with(s1, s2, <<s1, s2>>, dm)

real_quick_ratio(s1, s2) ==
    IF s1 = NoneStr \/ s2 = NoneStr THEN Raise("TypeError")
    ELSE IF Len(s1) = 0 /\ Len(s2) = 0 THEN Return(100)
    ELSE Return((100 * 2 * Min(Len(s1), Len(s2))) \div (Len(s1) + Len(s2)))

\* str.split(): the maximal runs of non-whitespace characters
split(s) ==
    LET starts == {i \in 1..Len(s) :
                      s[i] # Space /\ (i = 1 \/ s[i - 1] = Space)}
        start(k) == CHOOSE i \in starts :
                        Cardinality({j \in starts : j < i}) = k - 1
        stop(i) == CHOOSE e \in i..Len(s) :
                       /\ \A j \in i..e : s[j] # Space
                       /\ e = Len(s) \/ s[e + 1] = Space
    IN  IF starts = {} THEN <<>>
        ELSE [k \in 1..Cardinality(starts) |->
                 SubSeq(s, start(k), stop(start(k)))]

\* Python's string order: by code point, a proper prefix first
RECURSIVE StrLess(_, _)
StrLess(u, v) ==
    IF v = <<>> THEN FALSE
    ELSE IF u = <<>> THEN TRUE
    ELSE IF Head(u) # Head(v) THEN Ord(Head(u)) < Ord(Head(v))
    ELSE StrLess(Tail(u), Tail(v))

\* the words left in the order they come in
as_given(words) == words

\* sorted(words): insertion of each word after the words not greater
RECURSIVE sorted(_)
sorted(words) ==
    IF words = <<>> THEN <<>>
    ELSE LET w == words[Len(words)]
             front == sorted(SubSeq(words, 1, Len(words) - 1))
             n == Cardinality({k \in 1..Len(front) : ~StrLess(w, front[k])})
         IN  SubSeq(front, 1, n) \o <<w>> \o SubSeq(front, n + 1, Len(front))

RECURSIVE join(_)
join(words) ==
    IF words = <<>> THEN <<>>
    ELSE IF Len(words) = 1 THEN words[1]
    ELSE words[1] \o <<Space>> \o join(Tail(words))

sort_and_token(seq) == IF seq = NoneStr THEN <<>> ELSE join(sorted(split(seq)))

\* ------------------------------------------------------------------------
\* numpy arrays and the values preproc_string returns
\* ------------------------------------------------------------------------
\* what a variable such as choices_r holds: None, one str (np.str_), or an
\* array of strings
PyNone == [kind |-> "None", val |-> <<>>]
PyStr(s) == [kind |-> "str", val |-> s]
PyArray(items) == [kind |-> "array", val |-> items]

\* the items a for loop (or zip) over x visits; a str yields its characters
Iter(x) == IF x.kind = "str" THEN [k \in 1..Len(x.val) |-> <<x.val[k]>>]
           ELSE x.val

\* arr[valid] for a boolean array valid of the length of arr
RECURSIVE BoolMask(_, _)
BoolMask(arr, valid) ==
    IF arr = <<>> THEN <<>>
    ELSE (IF Head(valid) THEN <<Head(arr)>> ELSE <<>>)
         \o BoolMask(Tail(arr), Tail(valid))

\* arr[pos] for an array pos of (1-based) positions
Take(arr, pos) == [k \in 1..Len(pos) |-> arr[pos[k]]]

any(valid) == \E k \in 1..Len(valid) : valid[k]

\* the exception of the first call of a loop that raised, "" if none did
FirstExc(outs) ==
    LET bad == {k \in 1..Len(outs) : outs[k].exc # ""}
    IN  IF bad = {} THEN ""
        ELSE outs[CHOOSE k \in bad : \A j \in bad : k <= j].exc

Vals(outs) == [k \in 1..Len(outs) |-> outs[k].val]

\* floor(sqrt(n)) for n >= 0
RECURSIVE IsqrtIn(_, _, _)
IsqrtIn(n, lo, hi) ==
    IF lo = hi THEN lo
    ELSE LET mid == (lo + hi + 1) \div 2
         IN  IF mid * mid <= n THEN IsqrtIn(n, mid, hi)
             ELSE IsqrtIn(n, lo, mid - 1)

Isqrt(n) == IsqrtIn(n, 0, Min(n, 46340))

\* np.argsort(a): the positions of a in ascending order of value.  The
\* default sort is not stable: equal values come out in ascending position
\* order (ties = "stable") or in descending position order ("reverse").
Before(a, ties, i, j) ==
    \/ a[i] < a[j]
    \/ a[i] = a[j] /\ (IF ties = "stable" THEN i < j ELSE i > j)

argsort(a, ties) ==
    LET rank(i) == Cardinality({j \in 1..Len(a) : Before(a, ties, j, i)})
    IN  [k \in 1..Len(a) |-> CHOOSE i \in 1..Len(a) : rank(i) = k - 1]

\* the positions of the n smallest values
argpartition_bottom(a, n, ties) == SubSeq(argsort(a, ties), 1, n)

\* np.argpartition(a, -n)[-n:]: positions of the n largest values
argpartition_top(a, n, ties) == SubSeq(argsort(a, ties), Len(a) - n + 1, Len(a))

\* ------------------------------------------------------------------------
\* FuzzyFundMatcher.find_cur_best
\* ------------------------------------------------------------------------
\* no-match: find_cur_best returns None
NoMatch == <<>>

RaiseSeq(e) == [exc |-> e, val |-> <<>>]

\* top_n is <<>> for None and <<n>> for the integer n
TopNone == <<>>

\* one pass of the quick comparison: the mask of the choices whose upper
\* bound reaches the threshold
quick_valid(to_match, rc, valid_threshold) ==
    LET outs == [k \in 1..Len(rc) |-> real_quick_ratio(rc[k], to_match)]
    IN  IF FirstExc(outs) # "" THEN RaiseSeq(FirstExc(outs))
        ELSE Return([k \in 1..Len(rc) |-> outs[k].val >= valid_threshold])

\* arr[valid] of the quick comparison: arr must be an array as long as the
\* mask, and an empty mask is an array of floats, which cannot index
Masked(arr, valid) ==
    IF arr.kind # "array" THEN RaiseSeq("TypeError")
    ELSE IF Len(valid) = 0 \/ Len(arr.val) # Len(valid) THEN RaiseSeq("IndexError")
    ELSE Return(BoolMask(arr.val, valid))

\* lines 171-179, 184-191: the three arrays under the mask of one pass
quick_pass(valid, rcr, rcf, rpos) ==
    IF valid.exc # "" THEN RaiseSeq(valid.exc)
    ELSE LET mr == Masked(rcr, valid.val)
             mf == Masked(rcf, valid.val)
             mp == Masked(rpos, valid.val)
             failed == FirstExc(<<mr, mf, mp>>)
         IN  IF failed # "" THEN RaiseSeq(failed)
             ELSE Return([rcr |-> mr.val, rcf |-> mf.val, rpos |-> mp.val])

\* lines 182-191: the pass on the fund names of what the first pass left
quick_fund_pass(rem, fund, valid_threshold) ==
    IF rem.exc # "" THEN rem
    ELSE quick_pass(quick_valid(fund, rem.val.rcf, valid_threshold),
                    PyArray(rem.val.rcr), PyArray(rem.val.rcf),
                    PyArray(rem.val.rpos))

\* lines 166-198: the remaining candidates [rcr, rcf, rpos]
quick_comparison_stage(registrant, fund, ch_r, ch_f, m_pos, valid_threshold) ==
    IF ch_r.kind = "None" THEN RaiseSeq("TypeError")
    ELSE quick_fund_pass(
             quick_pass(quick_valid(registrant, Iter(ch_r), valid_threshold),
                        ch_r, ch_f, PyArray(m_pos)),
             fund, valid_threshold)

\* int(valid_threshold/3)
half_valid_threshold(valid_threshold) == TruncDiv(valid_threshold, 3)

\* lines 211-213, 265-267: compute_score of every remaining choice
raw_scores(to_match, rc, dm) ==
    [k \in 1..Len(rc) |-> compute_score(rc[k], to_match, dm)]

\* the tokenized score of every choice that is not perfect
token_scores_below_cutoff(raw, to_match, rc, valid_threshold, dm) ==
    [k \in 1..Len(rc) |->
        IF raw[k].val = 100 THEN Return(100)
        ELSE compute_score(sort_and_token(rc[k]), sort_and_token(to_match), dm)]

\* lines 219-231, 273-285: the tokenized score of the choices neither
\* perfect nor below the cut-off
token_scores(raw, to_match, rc, valid_threshold, dm) ==
    [k \in 1..Len(rc) |->
        IF raw[k].val = 100 THEN Return(100)
        ELSE IF raw[k].val < half_valid_threshold(valid_threshold) THEN Return(0)
        ELSE compute_score(sort_and_token(rc[k]), sort_and_token(to_match), dm)]

\* lines 233-237, 287-290: the better of the two scores and whether the
\* tokenized one improved it; [sc, improvement]
best_scores(raw, token, order_irrelevance) ==
    IF FirstExc(raw) # "" THEN RaiseSeq(FirstExc(raw))
    ELSE IF ~order_irrelevance
    THEN Return([sc |-> Vals(raw), improvement |-> [k \in 1..Len(raw) |-> FALSE]])
    ELSE IF FirstExc(token) # "" THEN RaiseSeq(FirstExc(token))
    ELSE Return([sc |-> [k \in 1..Len(raw) |-> Max(raw[k].val, token[k].val)],
                 improvement |-> [k \in 1..Len(raw) |-> token[k].val > raw[k].val]])

scores_from(raw, to_match, rc, valid_threshold, dm, order_irrelevance) ==
    best_scores(raw, token_scores(raw, to_match, rc, valid_threshold, dm),
                order_irrelevance)

\* the scores of one field (lines 205-237, 260-290)
field_scores(to_match, rc, valid_threshold, dm, order_irrelevance) ==
    scores_from(raw_scores(to_match, rc, dm), to_match, rc, valid_threshold,
                dm, order_irrelevance)

\* the product of the two scores, without the square root
scores_multiplied(rrsc, rfsc) == [k \in 1..Len(rrsc) |-> rrsc[k] * rfsc[k]]

\* what nan becomes under astype(int): the least int64, here the least
\* integer the checker holds
NanAsInt == -2147483647

\* np.floor(np.sqrt(rrsc*rfsc)).astype(int); the square root of a negative
\* product is nan, which converts to the least int64
scores_weighted(rrsc, rfsc) ==
    [k \in 1..Len(rrsc) |->
        IF rrsc[k] * rfsc[k] < 0 THEN NanAsInt ELSE Isqrt(rrsc[k] * rfsc[k])]

\* the positions of the top n scores without the [::-1]
pos_top_ascending(sw, top_n, ties) ==
    IF top_n # TopNone /\ Len(sw) > top_n[1]
    THEN LET part == argpartition_top(sw, top_n[1], ties)
         IN  Take(part, argsort(Take(sw, part), ties))
    ELSE argsort(sw, ties)

\* lines 315-323: the positions of the top n scores, best first
pos_top(sw, top_n, ties) ==
    IF top_n # TopNone /\ Len(sw) > top_n[1]
    THEN LET part == argpartition_top(sw, top_n[1], ties)
         IN  Reverse(Take(part, argsort(Take(sw, part), ties)))
    ELSE Reverse(argsort(sw, ties))

\* f'{r} : {f}'
Label(r, f) == r \o <<" ", ":", " ">> \o f

\* the matches with the identifier and the flag taken at the rank instead of
\* the position
top_matches_by_rank(rem, sw, top, order_irrelevance) ==
    [k \in 1..Len(top) |->
        [label |-> Label(rem.rcr[top[k]], rem.rcf[top[k]]),
         score |-> sw[top[k]],
         id |-> rem.rpos[k],
         flag |-> IF order_irrelevance /\ rem.improvement[k]
                  THEN "OR" ELSE ""]]

\* lines 325-336: the matches at the positions top, best first
top_matches(rem, sw, top, order_irrelevance) ==
    [k \in 1..Len(top) |->
        [label |-> Label(rem.rcr[top[k]], rem.rcf[top[k]]),
         score |-> sw[top[k]],
         id |-> rem.rpos[top[k]],
         flag |-> IF order_irrelevance /\ rem.improvement[top[k]]
                  THEN "OR" ELSE ""]]

ranked(rem, sw, cfg, ties) ==
    top_matches(rem, sw, pos_top(sw, cfg.top_n, ties), cfg.order_irrelevance)

\* lines 312-338: finalize
finalize(rem, cfg, ties) ==
    Return(ranked(rem, scores_weighted(rem.rrsc, rem.rfsc), cfg, ties))

\* lines 292-306: what the fund scores fnd leave of the candidates rem
fund_filter(fnd, rem, cfg, ties) ==
    IF fnd.exc = "TypeError" THEN Return(NoMatch)
    ELSE IF fnd.exc # "" THEN RaiseSeq(fnd.exc)
    ELSE LET valid_f == [k \in 1..Len(rem.rcf) |->
                            fnd.val.sc[k] >= cfg.valid_threshold]
             improvement == [k \in 1..Len(rem.rcf) |->
                                rem.improvement[k] \/ fnd.val.improvement[k]]
         IN  IF ~any(valid_f) THEN Return(NoMatch)
             ELSE finalize([rcr |-> BoolMask(rem.rcr, valid_f),
                            rcf |-> BoolMask(rem.rcf, valid_f),
                            rrsc |-> BoolMask(rem.rrsc, valid_f),
                            rfsc |-> BoolMask(fnd.val.sc, valid_f),
                            rpos |-> BoolMask(rem.rpos, valid_f),
                            improvement |-> BoolMask(improvement, valid_f)],
                           cfg, ties)

\* lines 259-306: fund matching
fund_matching(fund, rem, cfg, ties) ==
    fund_filter(field_scores(fund, rem.rcf, cfg.valid_threshold,
                             cfg.digit_multiplier, cfg.order_irrelevance),
                rem, cfg, ties)

\* lines 239-253: what the registrant scores reg leave of the candidates rem
registrant_filter(reg, fund, rem, cfg, ties) ==
    IF reg.exc = "TypeError" THEN Return(NoMatch)
    ELSE IF reg.exc # "" THEN RaiseSeq(reg.exc)
    ELSE LET valid_r == [k \in 1..Len(rem.rcr) |->
                            reg.val.sc[k] >= cfg.valid_threshold]
         IN  IF ~any(valid_r) THEN Return(NoMatch)
             ELSE fund_matching(fund,
                      [rcr |-> BoolMask(rem.rcr, valid_r),
                       rcf |-> BoolMask(rem.rcf, valid_r),
                       rrsc |-> BoolMask(reg.val.sc, valid_r),
                       rpos |-> BoolMask(rem.rpos, valid_r),
                       improvement |-> BoolMask(reg.val.improvement, valid_r)],
                      cfg, ties)

\* lines 204-338: registrant matching, fund matching and finalize on the
\* remaining candidates rem = [rcr, rcf, rpos]
match_remaining(registrant, fund, rem, cfg, ties) ==
    registrant_filter(field_scores(registrant, rem.rcr, cfg.valid_threshold,
                                   cfg.digit_multiplier, cfg.order_irrelevance),
                      fund, rem, cfg, ties)

\* the funnel after the quick comparison left rem
after_quick_comparison(rem, registrant, fund, cfg, ties) ==
    IF rem.exc \in {"TypeError", "IndexError"} THEN Return(NoMatch)
    ELSE match_remaining(registrant, fund, rem.val, cfg, ties)

find_cur_best(registrant, fund, ch_r, ch_f, m_pos, cfg, ties) ==
    IF cfg.quick_comparison
    THEN after_quick_comparison(
             quick_comparison_stage(registrant, fund, ch_r, ch_f, m_pos,
                                    cfg.valid_threshold),
             registrant, fund, cfg, ties)
    \* rcr is assigned by the quick comparison only (line 211)
    ELSE RaiseSeq("UnboundLocalError")

\* ------------------------------------------------------------------------
\* preproc_string and the FuzzyFundMatcher object
\* ------------------------------------------------------------------------
\* A raw name 'REGISTRANT : FUND' is the record [r, f] of its two sides
\* (lines 42-43), over the lower-case alphabet, on which lines 40 and 44-56
\* change nothing.

\* re.sub(r'\s*[& ]\s*', ' ', e): every run of spaces becomes one space
RECURSIVE collapse_spaces(_)
collapse_spaces(s) ==
    IF s = <<>> THEN <<>>
    ELSE IF Head(s) = Space /\ Len(s) > 1 /\ s[2] = Space
         THEN collapse_spaces(Tail(s))
    ELSE <<Head(s)>> \o collapse_spaces(Tail(s))

RECURSIVE lstrip(_)
lstrip(s) == IF s # <<>> /\ Head(s) = Space THEN lstrip(Tail(s)) ELSE s

strip(s) == Reverse(lstrip(Reverse(lstrip(s))))

\* None for no strings; else the two arrays, each replaced by its only
\* element when there is one string
preproc_string(strings) ==
    IF Len(strings) = 0 THEN PyNone
    ELSE LET st_r == [k \in 1..Len(strings) |-> strip(collapse_spaces(strings[k].r))]
             st_f == [k \in 1..Len(strings) |-> strip(collapse_spaces(strings[k].f))]
         IN  [kind |-> "tuple",
              val |-> <<IF Len(st_r) = 1 THEN PyStr(st_r[1]) ELSE PyArray(st_r),
                        IF Len(st_f) = 1 THEN PyStr(st_f[1]) ELSE PyArray(st_f)>>]

\* the row labels of the series the choices come from (choices.index)
index(k) == 10 * k

\* the names the inputs are drawn from
Cands == {[r |-> <<"a">>, f |-> <<"a">>],
          [r |-> <<"a", "1">>, f |-> <<"a">>],
          [r |-> <<"1", "1", " ", "a">>, f |-> <<"1", "1", " ", "a">>]}

Queries == {[r |-> <<"a">>, f |-> <<"a">>],
            [r |-> <<"a", " ", "1", "1">>, f |-> <<"a">>],
            [r |-> <<"1", "1", " ", "a">>, f |-> <<"a", " ", "1", "1">>],
            [r |-> <<"a", "1", "1">>, f |-> <<"a">>]}

MaxPool == 3
MaxQueries == 2

\* the lists of at most n elements of set
RECURSIVE ListsOf(_, _)
ListsOf(set, n) ==
    IF n = 0 THEN {<<>>}
    ELSE ListsOf(set, n - 1)
         \cup {Append(l, x) : l \in {m \in ListsOf(set, n - 1) : Len(m) = n - 1},
                              x \in set}

TieOrders == {"stable", "reverse"}

NoCfg == [top_n |-> TopNone, valid_threshold |-> 0, digit_multiplier |-> <<1, 1>>,
          quick_comparison |-> FALSE, order_irrelevance |-> FALSE,
          multi_processing |-> FALSE]

NoMatcher ==
    /\ to_matches = <<>> /\ choices = <<>>
    /\ to_matches_r = PyNone /\ to_matches_f = PyNone
    /\ choices_r = PyNone /\ choices_f = PyNone
    /\ match_pos = <<>>
    /\ sort_ties = "stable"

NoScorer ==
    /\ seq1 = NoneStr /\ seq2 = NoneStr /\ seqmat = <<>>
    /\ digit_multiplier = <<1, 1>> /\ sorted_token = FALSE
    /\ ret = [op |-> "none", out |-> Return(0)]

NoFunnelCall ==
    /\ arg_registrant = <<>> /\ arg_fund = <<>>
    /\ call = NoCfg
    /\ result = RaiseSeq("not called")

NoBatch ==
    /\ pc = "none"
    /\ args = NoCfg
    /\ reg_funds = <<>> /\ mats = <<>> /\ done_order = <<>>
    /\ first_fault = "" /\ output = <<>> /\ exc = ""

NoLoop ==
    /\ nd = {} /\ crsp = <<>> /\ year = 0 /\ month = 0
    /\ written = <<>> /\ loop_pc = "none"

\* the fields preproc leaves: unpacking the None of preproc_string raises
\* the TypeError that ends preproc, the fields assigned before it kept
Preprocessed(tm, ch) ==
    LET pm == preproc_string(tm)
        pch == preproc_string(ch)
        failed_m == pm.kind = "None"
        failed_ch == failed_m \/ pch.kind = "None"
    IN  [to_matches_r |-> IF failed_m THEN PyNone ELSE pm.val[1],
         to_matches_f |-> IF failed_m THEN PyNone ELSE pm.val[2],
         choices_r |-> IF failed_ch THEN PyNone ELSE pch.val[1],
         choices_f |-> IF failed_ch THEN PyNone ELSE pch.val[2]]

\* ------------------------------------------------------------------------
\* find_cur_best called with one query on the fields of a preprocessed
\* matcher
\* ------------------------------------------------------------------------
Thresholds == {0, 70, 101}
FunnelMultipliers == {<<1, 4>>, <<1, 1>>, <<3, 1>>, <<-1, 1>>}
TopNs == {TopNone, <<1>>, <<2>>}

\* the keyword arguments of the calls: the combinations of the values above,
\* and the defaults (top_n 3, digit_multiplier 1) with valid_threshold 90
FunnelConfigs ==
    [top_n : TopNs, valid_threshold : Thresholds,
     digit_multiplier : FunnelMultipliers,
     quick_comparison : BOOLEAN, order_irrelevance : BOOLEAN,
     multi_processing : {FALSE}]
    \cup [top_n : {<<3>>}, valid_threshold : {90},
          digit_multiplier : {<<1, 1>>},
          quick_comparison : BOOLEAN, order_irrelevance : BOOLEAN,
          multi_processing : {FALSE}]

\* a matcher of one query q and the pool ch with the identifiers pos, after
\* preproc, and the query find_cur_best is called with
MatcherFields(q, ch, pos) ==
    LET pre == Preprocessed(<<q>>, ch)
    IN  [to_matches |-> <<q>>, choices |-> ch, match_pos |-> pos,
         to_matches_r |-> pre.to_matches_r, to_matches_f |-> pre.to_matches_f,
         choices_r |-> pre.choices_r, choices_f |-> pre.choices_f,
         registrant |-> pre.to_matches_r.val, fund |-> pre.to_matches_f.val]

Indexed(ch) == [k \in 1..Len(ch) |-> index(k)]

\* find_cur_best is a static method: a caller can pass it a registrant or a
\* fund that is no string
WithInvalidQuery(m) ==
    {[m EXCEPT !.registrant = NoneStr], [m EXCEPT !.fund = NoneStr]}

InsertAt(l, k, x) == SubSeq(l, 1, k - 1) \o <<x>> \o SubSeq(l, k, Len(l))

\* and arrays of choices of its own making, here with entries that are no
\* strings
WithArrays(m, ch) ==
    [m EXCEPT !.choices = ch, !.match_pos = Indexed(ch),
              !.choices_r = PyArray([k \in 1..Len(ch) |-> ch[k].r]),
              !.choices_f = PyArray([k \in 1..Len(ch) |-> ch[k].f])]

\* candidate records whose primary or secondary is None
MalformedCands == {[r |-> NoneStr, f |-> <<"a">>], [r |-> <<"a">>, f |-> NoneStr]}

\* the pools of at most MaxPool records one of which is malformed
MalformedPools ==
    UNION {{InsertAt(l, k, bad) : k \in 1..(Len(l) + 1), bad \in MalformedCands} :
              l \in ListsOf(Cands, MaxPool - 1)}

FirstQuery == [r |-> <<"a">>, f |-> <<"a">>]

\* the names of the scenarios
abc_fund == <<"a", "b", "c", " ", "f", "u", "n", "d">>
growth == <<"g", "r", "o", "w", "t", "h">>
growth_high == growth \o <<" ", "h", "i", "g", "h">>
high_growth == <<"h", "i", "g", "h", " ">> \o growth

\* the matchers of the scenarios: one record that is the query itself with
\* identifier 1; the words of the query in another order, alone and after
\* a record that does not match and one that lacks a letter; a query whose
\* words come in another order with a low raw score
ScenarioMatchers ==
    {MatcherFields([r |-> abc_fund, f |-> growth],
                   <<[r |-> abc_fund, f |-> growth]>>, <<1>>),
     MatcherFields([r |-> growth_high, f |-> growth],
                   <<[r |-> high_growth, f |-> growth]>>, <<1>>),
     MatcherFields([r |-> growth_high, f |-> growth],
                   <<FirstQuery,
                     [r |-> SubSeq(growth_high, 1, 10), f |-> growth],
                     [r |-> high_growth, f |-> growth]>>, <<1, 2, 3>>),
     MatcherFields([r |-> <<"1", " ", "a">>, f |-> <<"1", "1", " ", "a">>],
                   <<[r |-> <<"a", " ", "1">>, f |-> <<"1", "1", " ", "a">>],
                     [r |-> <<"1", " ", "a">>, f |-> <<"a", " ", "1", "1">>]>>,
                   <<1, 2>>)}

\* what find_cur_best is called on
FunnelStarts ==
    {MatcherFields(q, ch, Indexed(ch)) : q \in Queries, ch \in ListsOf(Cands, MaxPool)}
    \cup UNION {WithInvalidQuery(MatcherFields(FirstQuery, ch, Indexed(ch))) :
                   ch \in ListsOf(Cands, MaxPool)}
    \cup {WithArrays(MatcherFields(FirstQuery, <<>>, <<>>), ch) :
             ch \in MalformedPools}
    \cup ScenarioMatchers

FunnelInit ==
    \E m \in FunnelStarts, t \in TieOrders :
        /\ to_matches = m.to_matches /\ choices = m.choices
        /\ to_matches_r = m.to_matches_r /\ to_matches_f = m.to_matches_f
        /\ choices_r = m.choices_r /\ choices_f = m.choices_f
        /\ match_pos = m.match_pos
        /\ sort_ties = t
        /\ arg_registrant = m.registrant
        /\ arg_fund = m.fund
        /\ call = NoCfg
        /\ result = RaiseSeq("not called")
        /\ NoScorer /\ NoBatch /\ NoLoop

find_cur_best_call(c) ==
    /\ result.exc = "not called"
    /\ call' = c
    /\ result' = find_cur_best(arg_registrant, arg_fund, choices_r, choices_f,
                               match_pos,
                               c, sort_ties)
    /\ UNCHANGED <<arg_registrant, arg_fund, scorer_vars, matcher_vars, batch_vars>>
    /\ UNCHANGED loop_vars

FunnelNext == \E c \in FunnelConfigs : find_cur_best_call(c)

SpecFunnel == FunnelInit /\ [][FunnelNext]_vars

\* ------------------------------------------------------------------------
\* FuzzyFundMatcher: construction, preproc and find_best
\* ------------------------------------------------------------------------
BatchCands == {[r |-> <<"a">>, f |-> <<"a">>],
               [r |-> <<"1", "1", " ", "a">>, f |-> <<"1", "1", " ", "a">>]}

BatchQueries == {[r |-> <<"a">>, f |-> <<"a">>],
                 [r |-> <<"1", "1", " ", "a">>, f |-> <<"a", " ", "1", "1">>]}

BatchConfigs ==
    [top_n : {<<1>>}, valid_threshold : Thresholds,
     digit_multiplier : {<<1, 1>>, <<-1, 1>>},
     quick_comparison : BOOLEAN, order_irrelevance : BOOLEAN,
     multi_processing : BOOLEAN]

\* a task of the map that has not run yet
Pending == RaiseSeq("pending")

\* an entry None of the output of find_best
NoneEntry == [to_match |-> <<>>, matches |-> NoMatch]

\* FuzzyFundMatcher(to_matches, choices) on two series
Init ==
    \E tm \in ListsOf(BatchQueries, MaxQueries),
       ch \in ListsOf(BatchCands, MaxPool), t \in TieOrders :
        /\ to_matches = tm /\ choices = ch
        /\ to_matches_r = PyNone /\ to_matches_f = PyNone
        /\ choices_r = PyNone /\ choices_f = PyNone
        /\ match_pos = [k \in 1..Len(ch) |-> index(k)]
        /\ sort_ties = t
        /\ pc = "constructed"
        /\ args = NoCfg
        /\ reg_funds = <<>> /\ mats = <<>> /\ done_order = <<>>
        /\ first_fault = "" /\ output = <<>> /\ exc = ""
        /\ NoScorer /\ NoFunnelCall /\ NoLoop

preproc ==
    /\ pc = "constructed"
    /\ LET pre == Preprocessed(to_matches, choices)
       IN  /\ to_matches_r' = pre.to_matches_r /\ to_matches_f' = pre.to_matches_f
           /\ choices_r' = pre.choices_r /\ choices_f' = pre.choices_f
    /\ pc' = "preprocessed"
    /\ UNCHANGED <<to_matches, choices, match_pos, sort_ties>>
    /\ UNCHANGED <<args, reg_funds, mats, done_order, first_fault, output, exc>>
    /\ UNCHANGED <<scorer_vars, funnel_vars, loop_vars>>

\* zip(x, y) of two iterables
zip(x, y) ==
    [k \in 1..Min(Len(Iter(x)), Len(Iter(y))) |->
        [registrant |-> Iter(x)[k], fund |-> Iter(y)[k]]]

\* lines 105-114: the call, up to the list of queries handed to the map;
\* zip over a None field raises
find_best(c) ==
    /\ pc = "preprocessed"
    /\ args' = c
    /\ IF to_matches_r.kind = "None" \/ to_matches_f.kind = "None"
       THEN /\ pc' = "raised" /\ exc' = "TypeError"
            /\ UNCHANGED <<reg_funds, mats>>
       ELSE /\ pc' = "map" /\ exc' = exc
            /\ reg_funds' = zip(to_matches_r, to_matches_f)
            /\ mats' = [k \in 1..Len(reg_funds') |-> Pending]
    /\ UNCHANGED <<done_order, first_fault, output>>
    /\ UNCHANGED <<scorer_vars, matcher_vars, funnel_vars, loop_vars>>

\* find_func(rf): one run of find_cur_best
find_func(rf) ==
    find_cur_best(rf.registrant, rf.fund, choices_r, choices_f, match_pos,
                  args, sort_ties)

\* the tasks that have not finished; done_order lists the finished ones in
\* the order they finished
PendingTasks ==
    {k \in 1..Len(mats) : \A j \in 1..Len(done_order) : done_order[j] # k}

\* the outcome of task i put where the order of completion says
store_in_completion_order(m, i, out) == [m EXCEPT ![Len(done_order) + 1] = out]

\* where the outcome of task i goes in the list of matches
store(m, i, out) == [m EXCEPT ![i] = out]

\* task i ends with out in the list comprehension: an exception ends
\* find_best
seq_done(i, out) ==
    /\ mats' = store(mats, i, out)
    /\ done_order' = Append(done_order, i)
    /\ IF out.exc # ""
       THEN pc' = "raised" /\ exc' = out.exc
       ELSE pc' = pc /\ exc' = exc

\* line 125: the next element of the list comprehension
seq_task ==
    /\ pc = "map" /\ ~args.multi_processing
    /\ PendingTasks # {}
    /\ \E i \in PendingTasks :
        /\ \A j \in PendingTasks : i <= j
        /\ seq_done(i, find_func(reg_funds[i]))
    /\ UNCHANGED <<args, reg_funds, first_fault, output>>
    /\ UNCHANGED <<scorer_vars, matcher_vars, funnel_vars, loop_vars>>

\* task i ends with out in a worker: the map keeps the first failure
\* reported to it
par_done(i, out) ==
    /\ mats' = store(mats, i, out)
    /\ done_order' = Append(done_order, i)
    /\ first_fault' = IF first_fault = "" THEN out.exc ELSE first_fault

\* lines 119-120: a worker of the pool finishes task i
par_task(i) ==
    /\ pc = "map" /\ args.multi_processing
    /\ i \in PendingTasks
    /\ par_done(i, find_func(reg_funds[i]))
    /\ UNCHANGED <<pc, args, reg_funds, output, exc>>
    /\ UNCHANGED <<scorer_vars, matcher_vars, funnel_vars, loop_vars>>

\* lines 127-137: the entries of the output, one per element of
\* zip(matches, to_matches_r, to_matches_f)
finish_output(m, regs, funds) ==
    [k \in 1..Min(Len(m), Min(Len(regs), Len(funds))) |->
        IF m[k].val # NoMatch
        THEN [to_match |-> Label(regs[k], funds[k]), matches |-> m[k].val]
        ELSE NoneEntry]

\* the map is over: pool.map re-raises the failure it kept, otherwise
\* find_best builds its output and returns
find_best_return ==
    /\ pc = "map" /\ PendingTasks = {}
    /\ IF args.multi_processing /\ first_fault # ""
       THEN /\ pc' = "raised" /\ exc' = first_fault
            /\ output' = output
       ELSE /\ pc' = "returned" /\ exc' = exc
            /\ output' = finish_output(mats, Iter(to_matches_r), Iter(to_matches_f))
    /\ UNCHANGED <<args, reg_funds, mats, done_order, first_fault>>
    /\ UNCHANGED <<scorer_vars, matcher_vars, funnel_vars, loop_vars>>

Next ==
    \/ preproc
    \/ \E c \in BatchConfigs : find_best(c)
    \/ seq_task
    \/ \E i \in 1..Len(mats) : par_task(i)
    \/ find_best_return

Spec == Init /\ [][Next]_vars

\* ------------------------------------------------------------------------
\* s1_fuzzy_match.py: the loop through the quarters
\* ------------------------------------------------------------------------
\* the years of the fund rows run from 2001 to 2000 + MaxYears
MaxYears == 2
Years == 2001..(2000 + MaxYears)

\* a quarter holds up to MaxRows fund rows
MaxRows == 2

\* months = [e*3 for e in range(1, 5)]
months == {3, 6, 9, 12}

MATCHING_HORIZON == <<-8, 3>>

\* cur_nd: the filings within the matching horizon of the quarter
cur_nd(y, m) ==
    LET start_year == y + ((m + MATCHING_HORIZON[1] - 1) \div 12)
        end_year == y + ((m + MATCHING_HORIZON[2] - 1) \div 12)
        start_month == ((m + MATCHING_HORIZON[1] - 1) % 12) + 1
        end_month == ((m + MATCHING_HORIZON[2] - 1) % 12) + 1
        start_yearmonth == 100 * start_year + start_month
        end_yearmonth == 100 * end_year + end_month
    IN  {f \in nd : start_yearmonth <= f /\ f <= end_yearmonth}

\* years = crsp.year.unique(), here in ascending order: the loop starts at
\* the first month of the first year that has fund rows
LoopInit ==
    \* the report months (ryearmonth) of the filings
    /\ nd \in SUBSET {200101, 200201}
    /\ crsp \in [Years \X months -> 0..MaxRows]
    /\ \E p \in Years \X months : crsp[p] > 0
    /\ year = CHOOSE y \in Years :
                 /\ \E m \in months : crsp[y, m] > 0
                 /\ \A z \in Years : (\E m \in months : crsp[z, m] > 0) => y <= z
    /\ month = 3
    /\ written = <<>>
    /\ loop_pc = "loop"
    /\ NoScorer /\ NoMatcher /\ NoFunnelCall /\ NoBatch

\* for year in years: the loop goes on with the first month of the next
\* year that has fund rows, or ends
next_year ==
    LET later == {y \in Years : y > year /\ \E m \in months : crsp[y, m] > 0}
    IN  IF later = {}
        THEN loop_pc' = "done" /\ UNCHANGED <<year, month>>
        ELSE /\ year' = CHOOSE y \in later : \A z \in later : y <= z
             /\ month' = 3
             /\ loop_pc' = "loop"

\* lines 217-219: no filings or no fund rows leave the loop over the months
quarter_break ==
    /\ loop_pc = "loop"
    /\ cur_nd(year, month) = {} \/ crsp[year, month] = 0
    /\ next_year
    /\ UNCHANGED <<nd, crsp, written>>
    /\ UNCHANGED <<scorer_vars, matcher_vars, funnel_vars, batch_vars>>

\* lines 221-310: the quarter is matched and appended to the output file.
\* For a single fund row find_best returns one entry per character of its
\* name, and the boolean index of line 244 has the wrong length.
quarter_match ==
    /\ loop_pc = "loop"
    /\ cur_nd(year, month) # {} /\ crsp[year, month] > 0
    /\ IF crsp[year, month] = 1
       THEN loop_pc' = "ValueError" /\ UNCHANGED <<year, month, written>>
       ELSE /\ written' = Append(written, 100 * year + month)
            /\ IF month = 12 THEN next_year
               ELSE month' = month + 3 /\ UNCHANGED <<year, loop_pc>>
    /\ UNCHANGED <<nd, crsp>>
    /\ UNCHANGED <<scorer_vars, matcher_vars, funnel_vars, batch_vars>>

LoopNext == quarter_break \/ quarter_match

SpecLoop == LoopInit /\ [][LoopNext]_vars

\* ------------------------------------------------------------------------
\* FuzzyScorer: the object
\* ------------------------------------------------------------------------
StringsOrNone == Strings \cup {NoneStr}

\* self.seqmat = None
NoneMat == <<>>

fund_123 == <<"f", "u", "n", "d", " ", "1", "2", "3">>
fund_124 == <<"f", "u", "n", "d", " ", "1", "2", "4">>

\* a name of 29 letters; the pair below has it followed by 7 digits
long_name == [k \in 1..29 |-> "a"]

\* <<choice, to_match>> pairs longer than MaxLen
ScenarioPairs ==
    {<<fund_124, fund_123>>, <<long_name \o [k \in 1..7 |-> "1"], long_name>>}

\* FuzzyScorer(to_match, choice, digit_multiplier, sorted_token)
ScorerInit ==
    \E pair \in (StringsOrNone \X StringsOrNone) \cup ScenarioPairs,
       dm \in DigitMultipliers, st \in BOOLEAN :
        /\ seq1 = IF st THEN sort_and_token(pair[1]) ELSE pair[1]
        /\ seq2 = IF st THEN sort_and_token(pair[2]) ELSE pair[2]
        /\ seqmat = <<seq1, seq2>>
        /\ digit_multiplier = dm
        /\ sorted_token = st
        /\ ret = [op |-> "__init__", out |-> Return(0)]
        /\ NoMatcher /\ NoFunnelCall /\ NoBatch /\ NoLoop

set_choice(choice) ==
    /\ seq1' = IF sorted_token THEN sort_and_token(choice) ELSE choice
    /\ IF seqmat = NoneMat
       THEN /\ ret' = [op |-> "set_choice", out |-> Raise("AttributeError")]
            /\ seqmat' = seqmat
       ELSE /\ ret' = [op |-> "set_choice", out |-> Return(0)]
            /\ seqmat' = <<seq1', seqmat[2]>>
    /\ UNCHANGED <<seq2, digit_multiplier, sorted_token>>
    /\ UNCHANGED <<matcher_vars, funnel_vars, batch_vars, loop_vars>>

compute_score_call ==
    LET typed == seq1 # NoneStr /\ seq2 # NoneStr
        rebuilt == typed /\ Len(seq1) > 0 /\ Len(seq2) > 0 /\ seqmat = NoneMat
        mat == IF rebuilt THEN <<seq1, seq2>> ELSE seqmat
    IN  /\ ret' = [op |-> "compute_score",
                   out |-> compute_score_with(seq1, seq2, mat, digit_multiplier)]
        /\ seqmat' = mat
        /\ UNCHANGED <<seq1, seq2, digit_multiplier, sorted_token>>
        /\ UNCHANGED <<matcher_vars, funnel_vars, batch_vars, loop_vars>>

compute_sorted_token_score ==
    /\ UNCHANGED <<matcher_vars, funnel_vars, batch_vars, loop_vars>>
    /\ IF seq1 = NoneStr \/ seq2 = NoneStr
       THEN \* seq1.split() or seq2.split() fails before anything is assigned
            /\ ret' = [op |-> "compute_sorted_token_score",
                       out |-> Raise("AttributeError")]
            /\ UNCHANGED <<seq1, seq2, seqmat, digit_multiplier, sorted_token>>
       ELSE LET t1 == join(sorted(split(seq1)))
                t2 == join(sorted(split(seq2)))
                score == compute_score_with(t1, t2, <<t1, t2>>, digit_multiplier)
            IN  /\ ret' = [op |-> "compute_sorted_token_score", out |-> score]
                \* an exception of compute_score leaves the rewritten strings
                /\ IF score.exc = ""
                   THEN /\ seq1' = seq1 /\ seq2' = seq2 /\ seqmat' = NoneMat
                   ELSE /\ seq1' = t1 /\ seq2' = t2 /\ seqmat' = <<t1, t2>>
                /\ UNCHANGED <<digit_multiplier, sorted_token>>

real_quick_ratio_call ==
    /\ ret' = [op |-> "real_quick_ratio", out |-> real_quick_ratio(seq1, seq2)]
    /\ UNCHANGED <<seq1, seq2, seqmat, digit_multiplier, sorted_token>>
    /\ UNCHANGED <<matcher_vars, funnel_vars, batch_vars, loop_vars>>

\* the strings set_choice is called with
NextChoices == StringsOfLen(0) \cup StringsOfLen(1)

ScorerNext ==
    \/ \E choice \in NextChoices : set_choice(choice)
    \/ compute_score_call
    \/ compute_sorted_token_score
    \/ real_quick_ratio_call

SpecScorer == ScorerInit /\ [][ScorerNext]_vars

\* ------------------------------------------------------------------------
\* Claims on the scorer (SpecScorer)
\* ------------------------------------------------------------------------
\* digit_multiplier in the documented range (numeric, > 0)
ValidMultiplier(dm) == dm[1] > 0

\* compute_score() has just returned a score for the strings seq1, seq2
Scored == ret.op = "compute_score" /\ ret.out.exc = ""

\* C1: for all strings and every digit_multiplier > 0, real_quick_ratio is
\* at least compute_score on the same two strings.
C1_QuickRatioBoundsScore ==
    (Scored /\ ValidMultiplier(digit_multiplier))
        => real_quick_ratio(seq1, seq2).val >= ret.out.val

IsSubstring(u, v) ==
    \E i \in 1..(Len(v) + 1) :
        i + Len(u) - 1 <= Len(v) /\ SubSeq(v, i, i + Len(u) - 1) = u

Elems(u) == {u[k] : k \in 1..Len(u)}

\* C2 as stated: compute_score is symmetric in its two strings.
C2_ScoreSymmetric ==
    (Scored /\ ValidMultiplier(digit_multiplier))
        => ret.out = compute_score(seq2, seq1, digit_multiplier)

\* C2 amended: compute_score(a, b) = compute_score(b, a) whenever one string
\* is a contiguous substring of the other (so also when they are equal or one
\* is empty) or the two strings have no character in common.
C2_ScoreSymmetricOnSubstrings ==
    (/\ Scored
     /\ ValidMultiplier(digit_multiplier)
     /\ \/ IsSubstring(seq1, seq2)
        \/ IsSubstring(seq2, seq1)
        \/ Elems(seq1) \cap Elems(seq2) = {})
        => ret.out = compute_score(seq2, seq1, digit_multiplier)

\* a score strictly between 0 and 100 was returned for a string and a
\* proper, non-empty substring of it
C2_Witness ==
    /\ Scored
    /\ ValidMultiplier(digit_multiplier)
    /\ seq1 # seq2 /\ Len(seq1) > 0
    /\ IsSubstring(seq1, seq2)
    /\ ret.out.val > 0 /\ ret.out.val < 100

\* the two strings hold the same words, each as many times
SameWords(u, v) ==
    LET wu == split(u)
        wv == split(v)
        count(ws, w) == Cardinality({k \in 1..Len(ws) : ws[k] = w})
    IN  \A w \in {wu[k] : k \in 1..Len(wu)} \cup {wv[k] : k \in 1..Len(wv)} :
            count(wu, w) = count(wv, w)

\* C16: compute_sorted_token_score does not depend on the order of the
\* words: every string a with the words of seq1 in any order scores against
\* seq2 what seq1 scored, and the score is 100 when seq1 and seq2 hold the
\* same words.
C16_TokenScoreOrderInvariant ==
    (ret.op = "compute_sorted_token_score" /\ seq1 # NoneStr /\ seq2 # NoneStr)
        => /\ \A a \in Strings :
                 SameWords(a, seq1)
                     => compute_score(sort_and_token(a), sort_and_token(seq2),
                                      digit_multiplier) = ret.out
           /\ SameWords(seq1, seq2) => ret.out = Return(100)

\* two strings of the same two words in different orders scored 100
C16_Witness ==
    /\ ret.op = "compute_sorted_token_score" /\ ret.out = Return(100)
    /\ seq1 # NoneStr /\ seq2 # NoneStr
    /\ Len(split(seq1)) = 2 /\ split(seq1) # split(seq2)
    /\ SameWords(seq1, seq2)

\* C20: on a scorer with string inputs and a positive digit_multiplier no
\* call of set_choice, compute_score, compute_sorted_token_score or
\* real_quick_ratio fails, whatever was called before; compute_score returns
\* what a fresh scorer returns for the current strings; and
\* compute_sorted_token_score leaves seq1 and seq2 as they were.
C20_ScoringIsPure ==
    [][(seq1' # NoneStr /\ seq2' # NoneStr /\ ValidMultiplier(digit_multiplier))
          => /\ ret'.out.exc = ""
             /\ ret'.op = "compute_score"
                   => ret'.out = compute_score(seq1', seq2', digit_multiplier)
             /\ ret'.op = "compute_sorted_token_score"
                   => seq1' = seq1 /\ seq2' = seq2]_vars

\* C21: compute_score of two non-empty strings is
\* floor(100 * matches / (matches + penalty)), matches being the total length
\* of the alignment blocks and penalty the sum, over the positions of both
\* strings that no block covers, of digit_multiplier for a digit and 1 for
\* any other character; two empty strings score 100, exactly one empty
\* string scores 0.
C21_ScoreIsFloorOfRatio ==
    (/\ ret.op = "compute_score" /\ seq1 # NoneStr /\ seq2 # NoneStr
     /\ ValidMultiplier(digit_multiplier))
        => LET blocks == get_matching_blocks(seq1, seq2)
               total == SumSeq([k \in 1..Len(blocks) |-> blocks[k][3]])
               \* the positions of string w (1: seq1, 2: seq2) no block covers
               Uncovered(w, str) ==
                   {i \in 1..Len(str) :
                       ~\E k \in 1..Len(blocks) :
                           /\ blocks[k][w] <= i
                           /\ i < blocks[k][w] + blocks[k][3]}
               free_a == Uncovered(1, seq1)
               free_b == Uncovered(2, seq2)
               digits == Cardinality({i \in free_a : isdigit(seq1[i])})
                         + Cardinality({i \in free_b : isdigit(seq2[i])})
               others == Cardinality(free_a) + Cardinality(free_b) - digits
               num == 100 * total * digit_multiplier[2]
               den == total * digit_multiplier[2]
                      + digits * digit_multiplier[1]
                      + others * digit_multiplier[2]
           IN  ret.out = IF seq1 = <<>> /\ seq2 = <<>> THEN Return(100)
                         ELSE IF seq1 = <<>> \/ seq2 = <<>> THEN Return(0)
                         ELSE Return(num \div den)

\* C22: a larger digit_multiplier never gives a larger score: for
\* multipliers 0 < m1 <= m2 the score with m2 is at most the score with m1;
\* and on "fund 123" / "fund 124" the score with digit_multiplier 3 is
\* strictly lower than with digit_multiplier 1.
C22_DigitMultiplierMonotone ==
    (/\ ret.op = "compute_score" /\ seq1 # NoneStr /\ seq2 # NoneStr
     /\ ValidMultiplier(digit_multiplier))
        => LET score(m) == compute_score(seq1, seq2, m).val
               AtMost(m1, m2) == m1[1] * m2[2] <= m2[1] * m1[2]
           IN  /\ ret.out = Return(score(digit_multiplier))
               /\ \A m \in {x \in DigitMultipliers : ValidMultiplier(x)} :
                     /\ AtMost(m, digit_multiplier) => ret.out.val <= score(m)
                     /\ AtMost(digit_multiplier, m) => score(m) <= ret.out.val
               /\ (seq1 = fund_124 /\ seq2 = fund_123)
                     => score(<<3, 1>>) < score(<<1, 1>>)

\* compute_score was called on "fund 124" / "fund 123" with multiplier 3 and
\* returned 53, against 77 with multiplier 1
C22_Witness ==
    /\ ret.op = "compute_score" /\ seq1 = fund_124 /\ seq2 = fund_123
    /\ digit_multiplier = <<3, 1>> /\ ~sorted_token
    /\ ret.out = Return(53)
    /\ compute_score(seq1, seq2, <<1, 1>>) = Return(77)

\* ------------------------------------------------------------------------
\* Claims on find_cur_best (SpecFunnel)
\* ------------------------------------------------------------------------
\* valid_threshold and digit_multiplier in their documented ranges
ValidConfig(c) ==
    c.valid_threshold \in 0..100 /\ ValidMultiplier(c.digit_multiplier)

Called == result.exc # "not called"

\* find_cur_best returned a list of matches
Matched == result.exc = "" /\ result.val # NoMatch

\* the query and every choice of the call are strings
AllStrings ==
    /\ arg_registrant # NoneStr /\ arg_fund # NoneStr
    /\ \A k \in 1..Len(choices) : choices[k].r # NoneStr /\ choices[k].f # NoneStr

\* the pool position of the record a returned id belongs to
PosOf(id) == CHOOSE p \in 1..Len(match_pos) : match_pos[p] = id

\* the score of stage 2 (which = 1) or 3 (which = 2) of pool position p
StageScore(p, which) ==
    field_scores(IF which = 1 THEN arg_registrant ELSE arg_fund,
                 <<IF which = 1 THEN choices_r.val[p] ELSE choices_f.val[p]>>,
                 call.valid_threshold, call.digit_multiplier,
                 call.order_irrelevance).val.sc[1]

Weighted(p) == Isqrt(StageScore(p, 1) * StageScore(p, 2))

QuickPasses(p) ==
    /\ real_quick_ratio(choices_r.val[p], arg_registrant).val >= call.valid_threshold
    /\ real_quick_ratio(choices_f.val[p], arg_fund).val >= call.valid_threshold

ScoresPass(p) ==
    /\ StageScore(p, 1) >= call.valid_threshold
    /\ StageScore(p, 2) >= call.valid_threshold

\* the pool positions that pass stages 1 to 3 of a call with the quick filter
Survivors ==
    IF choices_r.kind # "array" \/ ~AllStrings THEN {}
    ELSE {p \in 1..Len(match_pos) : QuickPasses(p) /\ ScoresPass(p)}

ReturnedPos == {PosOf(result.val[k].id) : k \in 1..Len(result.val)}

\* stages 2 to 4 run on the whole pool
WholePool ==
    match_remaining(arg_registrant, arg_fund,
                    [rcr |-> choices_r.val, rcf |-> choices_f.val, rpos |-> match_pos],
                    call, sort_ties)

\* C3: the quick filter never discards a true match: with quick_comparison
\* on, every candidate whose stage-2 and stage-3 scores reach the threshold
\* survives stage 1, and the result is that of stages 2-4 on the whole pool.
C3_QuickFilterSound ==
    (/\ Called /\ call.quick_comparison /\ ValidConfig(call)
     /\ choices_r.kind = "array" /\ AllStrings)
        => /\ \A p \in 1..Len(match_pos) : ScoresPass(p) => QuickPasses(p)
           /\ result = WholePool

\* C4: every returned weighted_score is floor(sqrt(primary * secondary)) of
\* a candidate that passed both field thresholds, and lies between
\* valid_threshold and 100.
C4_WeightedScoreInRange ==
    (Called /\ ValidConfig(call) /\ Matched)
        => \A k \in 1..Len(result.val) :
              LET e == result.val[k]
                  p == PosOf(e.id)
                  primary_score == StageScore(p, 1)
                  secondary_score == StageScore(p, 2)
              IN  /\ primary_score >= call.valid_threshold
                  /\ secondary_score >= call.valid_threshold
                  /\ e.score = Isqrt(primary_score * secondary_score)
                  /\ call.valid_threshold <= e.score /\ e.score <= 100

\* a match was returned above a positive threshold with a score that is
\* neither the threshold nor 100
C4_Witness ==
    /\ Called /\ ValidConfig(call) /\ Matched
    /\ call.valid_threshold > 0
    /\ \E k \in 1..Len(result.val) :
          result.val[k].score > call.valid_threshold /\ result.val[k].score < 100

\* C5: the result has min(top_n, number of survivors) entries (all the
\* survivors when top_n is None), is sorted in non-increasing
\* weighted_score, and no survivor left out scores strictly higher than a
\* returned one.
C5_TopNSorted ==
    (Called /\ result.exc = "")
        => LET survivors == Survivors
               weighted == [p \in survivors |-> Weighted(p)]
               returned == ReturnedPos
           IN  /\ Len(result.val) =
                     IF call.top_n = TopNone THEN Cardinality(survivors)
                     ELSE Min(call.top_n[1], Cardinality(survivors))
               /\ \A k \in 1..(Len(result.val) - 1) :
                     result.val[k].score >= result.val[k + 1].score
               /\ returned \subseteq survivors
               /\ \A k \in 1..Len(result.val) :
                     \A p \in survivors \ returned :
                         weighted[p] <= result.val[k].score

\* three survivors with three different scores were cut to the best two
C5_Witness ==
    /\ Called /\ Matched /\ ValidConfig(call)
    /\ call.top_n = <<2>> /\ Len(result.val) = 2
    /\ Cardinality(Survivors) = 3
    /\ Cardinality({Weighted(p) : p \in Survivors}) = 3

NoCutOff == call.top_n = TopNone \/ Len(result.val) < call.top_n[1]

Started == pc \in {"map", "returned", "raised"}

\* the label of query i: its preprocessed primary and secondary
QueryLabel(i) ==
    Label(strip(collapse_spaces(to_matches[i].r)),
          strip(collapse_spaces(to_matches[i].f)))

\* C7: find_best returns exactly one entry per query, in input order:
\* len(output) is the number of queries and output[i] is None or a Match
\* labelled with query i.
C7_OneEntryPerQuery ==
    (pc = "returned" /\ ValidConfig(args) /\ choices # <<>>)
        => /\ Len(output) = Len(to_matches)
           /\ \A i \in 1..Len(output) :
                 output[i] = NoneEntry \/ output[i].to_match = QueryLabel(i)

\* what find_best makes of its queries, the pool and the configuration when
\* the tasks run one after the other
Sequential ==
    IF to_matches_r.kind = "None" \/ to_matches_f.kind = "None"
    THEN [pc |-> "raised", exc |-> "TypeError", output |-> <<>>]
    ELSE LET m == [k \in 1..Len(reg_funds) |-> find_func(reg_funds[k])]
         IN  IF FirstExc(m) # ""
             THEN [pc |-> "raised", exc |-> FirstExc(m), output |-> <<>>]
             ELSE [pc |-> "returned", exc |-> "",
                   output |-> finish_output(m, Iter(to_matches_r),
                                            Iter(to_matches_f))]

\* C8: sequential and parallel execution of find_best on the same queries,
\* pool and configuration end the same way, with the same output: entry k is
\* the result of query k whatever order the tasks finish in, and depends on
\* that query, the pool and the configuration only.
C8_ModesAgree ==
    pc \in {"returned", "raised"}
        => /\ pc = Sequential.pc /\ exc = Sequential.exc
           /\ output = Sequential.output

\* a parallel run returned two different entries, one of them a match, after
\* its tasks finished out of order
C8_Witness ==
    /\ pc = "returned" /\ args.multi_processing
    /\ \E i, j \in 1..Len(done_order) : i < j /\ done_order[i] > done_order[j]
    /\ \E i, j \in 1..Len(output) : output[i] # NoneEntry /\ output[i] # output[j]

\* C9: with digit_multiplier <= 0 or valid_threshold outside [0,100]
\* find_best fails with InvalidConfig before any scoring starts: no task
\* runs and nothing is returned.
C9_InvalidConfigRejected ==
    (/\ Started /\ ~ValidConfig(args) /\ args.quick_comparison
     /\ to_matches # <<>> /\ choices # <<>>
     /\ (done_order # <<>> \/ pc # "map"))
        => pc = "raised" /\ exc = "InvalidConfig" /\ done_order = <<>>

\* the tasks that ended with an exception
Faulted == {k \in 1..Len(mats) : k \notin PendingTasks /\ mats[k].exc # ""}

\* C10: a failure raised inside one find_cur_best run stays with its query:
\* find_best does not raise, and once it has returned the entry of that query
\* is None and every other entry is the result of its own query.
C10_FaultIsolated ==
    (Faulted # {} /\ ValidConfig(args) /\ choices # <<>>)
        => /\ pc # "raised"
           /\ pc = "returned" =>
                 /\ Len(output) = Len(mats)
                 /\ \A k \in 1..Len(output) :
                       output[k] = IF k \in Faulted THEN NoneEntry
                                   ELSE finish_output(mats, Iter(to_matches_r),
                                                      Iter(to_matches_f))[k]

\* ------------------------------------------------------------------------
\* Claims on find_cur_best: inputs that are no strings (SpecFunnel)
\* ------------------------------------------------------------------------
\* C11: a query whose primary or secondary is no string makes find_cur_best
\* return None instead of raising, for every setting of quick_comparison and
\* order_irrelevance and every pool.
C11_InvalidQueryNoMatch ==
    (Called /\ (arg_registrant = NoneStr \/ arg_fund = NoneStr))
        => result = Return(NoMatch)

\* C12: a candidate record whose primary or secondary is no string is
\* excluded on its own: the result of the funnel is the result on the pool
\* without that record.
C12_MalformedCandidateExcluded ==
    (/\ Called /\ ValidConfig(call)
     /\ arg_registrant # NoneStr /\ arg_fund # NoneStr /\ ~AllStrings)
        => LET wellformed == [k \in 1..Len(choices) |->
                                 choices[k].r # NoneStr /\ choices[k].f # NoneStr]
           IN  result = find_cur_best(arg_registrant, arg_fund,
                            PyArray(BoolMask(choices_r.val, wellformed)),
                            PyArray(BoolMask(choices_f.val, wellformed)),
                            BoolMask(match_pos, wellformed), call, sort_ties)

\* ------------------------------------------------------------------------
\* Claims on find_cur_best: the scenarios (SpecFunnel)
\* ------------------------------------------------------------------------
\* C14: with the pool of the single record (abc fund, growth, id 1), the
\* query (abc fund, growth) and valid_threshold 90 the funnel returns exactly
\* one result, with score 100, id 1 and flag "".
C14_ScenarioA ==
    (/\ Called /\ call.quick_comparison /\ call.valid_threshold = 90
     /\ to_matches = <<[r |-> abc_fund, f |-> growth]>>
     /\ choices = <<[r |-> abc_fund, f |-> growth]>> /\ match_pos = <<1>>)
        => /\ result.exc = "" /\ Len(result.val) = 1
           /\ result.val[1].score = 100 /\ result.val[1].id = 1
           /\ result.val[1].flag = ""

\* C15: with order_irrelevance on, the query primary "growth high" against
\* the candidate primary "high growth" (the same secondary, valid_threshold
\* above the raw score of the pair) has a token-sorted score of 100, and the
\* candidate is in the result with flag "OR".
C15_ScenarioC ==
    (/\ Called /\ call.order_irrelevance /\ ValidConfig(call)
     /\ arg_registrant = growth_high
     /\ compute_score(high_growth, growth_high, call.digit_multiplier).val
            < call.valid_threshold)
        => /\ compute_score(sort_and_token(high_growth),
                            sort_and_token(growth_high),
                            call.digit_multiplier) = Return(100)
           /\ result.exc = ""
           /\ \A p \in 1..Len(choices) :
                 choices[p].r = high_growth
                     => \E k \in 1..Len(result.val) :
                           /\ result.val[k].id = match_pos[p]
                           /\ result.val[k].flag = "OR"

\* ------------------------------------------------------------------------
\* Claims on find_cur_best: the stages (SpecFunnel)
\* ------------------------------------------------------------------------
\* what stage 2 (which = 1) or 3 (which = 2) computes for pool position p
\* alone: [sc, improvement] of one choice
OwnScores(p, which) ==
    field_scores(IF which = 1 THEN arg_registrant ELSE arg_fund,
                 <<IF which = 1 THEN choices_r.val[p] ELSE choices_f.val[p]>>,
                 call.valid_threshold, call.digit_multiplier,
                 call.order_irrelevance).val

\* C17: every returned tuple belongs to one pool position p: its id is
\* match_pos[p], its label is made of choices_r[p] and choices_f[p], its
\* score and flag are those of record p's own two scores, record p passed
\* every stage, and no position is returned twice.
C17_ArraysStayAligned ==
    (Called /\ Matched)
        => /\ \A k \in 1..Len(result.val) :
                 LET e == result.val[k]
                     p == PosOf(e.id)
                     primary == OwnScores(p, 1)
                     secondary == OwnScores(p, 2)
                 IN  /\ \E j \in 1..Len(match_pos) : match_pos[j] = e.id
                     /\ e.label = Label(choices_r.val[p], choices_f.val[p])
                     /\ e.score = scores_weighted(primary.sc, secondary.sc)[1]
                     /\ e.flag = IF \/ primary.improvement[1]
                                    \/ secondary.improvement[1]
                                 THEN "OR" ELSE ""
                     /\ call.quick_comparison => QuickPasses(p)
                     /\ primary.sc[1] >= call.valid_threshold
                     /\ secondary.sc[1] >= call.valid_threshold
           /\ \A i, j \in 1..Len(result.val) :
                 i # j => result.val[i].id # result.val[j].id

\* of three records the first was dropped by the threshold and the other
\* two were returned in the reverse of their pool order, with different
\* scores and flags
C17_Witness ==
    /\ Called /\ Matched /\ ValidConfig(call)
    /\ Len(match_pos) = 3 /\ Len(result.val) = 2
    /\ call.top_n # <<2>> /\ 1 \notin ReturnedPos
    /\ PosOf(result.val[1].id) > PosOf(result.val[2].id)
    /\ result.val[1].score > result.val[2].score
    /\ result.val[1].flag # result.val[2].flag

\* the raw score (token = FALSE) or the token-sorted score (token = TRUE) of
\* the primary (which = 1) or secondary (which = 2) of pool position p
PairScore(p, which, token) ==
    LET choice == IF which = 1 THEN choices_r.val[p] ELSE choices_f.val[p]
        to_match == IF which = 1 THEN arg_registrant ELSE arg_fund
    IN  IF token
        THEN compute_score(sort_and_token(choice), sort_and_token(to_match),
                           call.digit_multiplier).val
        ELSE compute_score(choice, to_match, call.digit_multiplier).val

\* the token-sorted score of the field is computed
TokenComputed(p, which) ==
    /\ call.order_irrelevance
    /\ PairScore(p, which, FALSE) # 100
    /\ PairScore(p, which, FALSE) >= call.valid_threshold \div 3

\* C19: with order_irrelevance on the token-sorted score of a field counts
\* exactly when its raw score is neither 100 nor below
\* floor(valid_threshold/3); the stage score is then the maximum of the two;
\* the flag is "OR" exactly when a token-sorted score that counts exceeds the
\* raw score in the primary or the secondary, and "" with order_irrelevance
\* off; a candidate with a raw field score below floor(valid_threshold/3) is
\* dropped whatever its token-sorted score.
C19_TokenScoreCutOff ==
    (/\ Called /\ ValidConfig(call) /\ result.exc = ""
     /\ choices_r.kind = "array" /\ AllStrings)
        => LET stage(p, w) == IF TokenComputed(p, w)
                              THEN Max(PairScore(p, w, FALSE), PairScore(p, w, TRUE))
                              ELSE PairScore(p, w, FALSE)
               improved(p, w) == /\ TokenComputed(p, w)
                                 /\ PairScore(p, w, TRUE) > PairScore(p, w, FALSE)
           IN  /\ \A k \in 1..Len(result.val) :
                     LET e == result.val[k]
                         p == PosOf(e.id)
                     IN  /\ stage(p, 1) >= call.valid_threshold
                         /\ stage(p, 2) >= call.valid_threshold
                         /\ e.score = Isqrt(stage(p, 1) * stage(p, 2))
                         /\ e.flag = IF improved(p, 1) \/ improved(p, 2)
                                     THEN "OR" ELSE ""
                         /\ ~call.order_irrelevance => e.flag = ""
               /\ \A p \in 1..Len(match_pos) :
                     (\E w \in {1, 2} :
                         PairScore(p, w, FALSE) < call.valid_threshold \div 3)
                         => p \notin ReturnedPos

\* one candidate was dropped for a raw primary score below the cut-off
\* although its token-sorted score is 100, and another was returned with
\* flag "OR" for a secondary whose token-sorted score counted
C19_Witness ==
    /\ Called /\ ValidConfig(call) /\ Matched /\ call.order_irrelevance
    /\ \E p \in 1..Len(match_pos) :
          /\ PairScore(p, 1, FALSE) < call.valid_threshold \div 3
          /\ PairScore(p, 1, TRUE) = 100 /\ PairScore(p, 2, FALSE) = 100
          /\ QuickPasses(p)
          /\ p \notin ReturnedPos
    /\ \E k \in 1..Len(result.val) :
          /\ result.val[k].flag = "OR"
          /\ TokenComputed(PosOf(result.val[k].id), 2)
          /\ ~TokenComputed(PosOf(result.val[k].id), 1)

\* C18: with quick_comparison off the funnel skips stage 1 and runs stages
\* 2 to 4 on the entire pool: it returns their ranked result or no-match and
\* does not raise.
C18_QuickFilterOptional ==
    (/\ Called /\ ~call.quick_comparison /\ ValidConfig(call)
     /\ choices_r.kind = "array" /\ AllStrings)
        => result.exc = "" /\ result = WholePool

\* ------------------------------------------------------------------------
\* Claims on find_best: the empty pool (Spec)
\* ------------------------------------------------------------------------
\* C13: with an empty candidate pool find_best raises nothing and every
\* entry it returns is None, for every setting of quick_comparison,
\* order_irrelevance and multi_processing.
C13_EmptyPoolNoMatch ==
    (/\ choices = <<>> /\ to_matches # <<>> /\ ValidConfig(args)
     /\ pc \in {"returned", "raised"})
        => /\ pc = "returned"
           /\ \A k \in 1..Len(output) : output[k] = NoneEntry

\* ------------------------------------------------------------------------
\* Claims on the quarter loop (SpecLoop)
\* ------------------------------------------------------------------------
\* C23: when the script has ended, every quarter of a year with fund rows
\* that has filings within its matching horizon and fund rows of its own
\* was matched and written, whether or not an earlier quarter of that year
\* was empty.
C23_EveryWindowMatched ==
    loop_pc \in {"done", "ValueError"}
        => \A y \in Years, m \in months :
              (cur_nd(y, m) # {} /\ crsp[y, m] > 0)
                  => \E k \in 1..Len(written) : written[k] = 100 * y + m

====
